---- MODULE Spec2Model ----
(***************************************************************************)
(* Model of bot_assistent.py: the contact Record, the AddressBook with its *)
(* upcoming-birthdays query, and the command loop of main() with its       *)
(* pickle persistence.                                                     *)
(*                                                                         *)
(* A Python str is a sequence of characters; a character is a one-element  *)
(* TLA+ string, and "sup2" stands for the single character U+00B2          *)
(* (SUPERSCRIPT TWO), for which str.isdigit() is True and str.isdecimal()  *)
(* is False.  An optional value (None or an object) is a sequence of       *)
(* length 0 or 1.                                                          *)
(***************************************************************************)
EXTENDS Integers, Sequences, FiniteSets, TLC

VARIABLES rec, book, file, pc, out, last, writes

vars == <<rec, book, file, pc, out, last, writes>>

(***************************************************************************)
(* Bounds                                                                  *)
(***************************************************************************)
MaxPhones == 3

MaxBookPhones == 1

(***************************************************************************)
(* Characters and strings                                                  *)
(***************************************************************************)
AsciiDigits == {"0", "1", "2", "3", "4", "5", "6", "7", "8", "9"}

\* characters c with c.isdigit(): the decimal digits and the other Unicode
\* digits (Numeric_Type=Digit), of which U+00B2 is the representative
UnicodeDigits == AsciiDigits \cup {"sup2"}

Whitespace == {" ", "\t"}

isdigit(s) == Len(s) > 0 /\ \A i \in 1..Len(s) : s[i] \in UnicodeDigits

IsDecimalDigits(s) == \A i \in 1..Len(s) : s[i] \in AsciiDigits

DigitVal(c) ==
    CASE c = "0" -> 0 [] c = "1" -> 1 [] c = "2" -> 2 [] c = "3" -> 3
      [] c = "4" -> 4 [] c = "5" -> 5 [] c = "6" -> 6 [] c = "7" -> 7
      [] c = "8" -> 8 [] c = "9" -> 9

DigitChar(n) ==
    CASE n = 0 -> "0" [] n = 1 -> "1" [] n = 2 -> "2" [] n = 3 -> "3"
      [] n = 4 -> "4" [] n = 5 -> "5" [] n = 6 -> "6" [] n = 7 -> "7"
      [] n = 8 -> "8" [] n = 9 -> "9"

RECURSIVE IntOf(_)
IntOf(s) == IF s = <<>> THEN 0
            ELSE 10 * IntOf(SubSeq(s, 1, Len(s) - 1)) + DigitVal(s[Len(s)])

RECURSIVE StrOfNat(_)
StrOfNat(n) == IF n < 10 THEN <<DigitChar(n)>>
               ELSE Append(StrOfNat(n \div 10), DigitChar(n % 10))

Pad2(n) == IF n < 10 THEN <<"0", DigitChar(n)>> ELSE StrOfNat(n)

\* str.lower() on the characters that occur in the lines typed
lower(c) ==
    CASE c = "A" -> "a" [] c = "D" -> "d" [] c = "E" -> "e" [] c = "X" -> "x"
      [] c = "I" -> "i" [] c = "T" -> "t" [] OTHER -> c

LowerStr(s) == [i \in 1..Len(s) |-> lower(s[i])]

\* str.strip(): drop leading and trailing whitespace
RECURSIVE LStrip(_)
LStrip(s) == IF s # <<>> /\ Head(s) \in Whitespace THEN LStrip(Tail(s)) ELSE s

RECURSIVE RStrip(_)
RStrip(s) == IF s # <<>> /\ s[Len(s)] \in Whitespace
             THEN RStrip(SubSeq(s, 1, Len(s) - 1)) ELSE s

strip(s) == RStrip(LStrip(s))

\* str.split(): the maximal runs of non-whitespace characters, in order
RECURSIVE SplitFrom(_, _, _)
SplitFrom(s, cur, acc) ==
    IF s = <<>> THEN (IF cur = <<>> THEN acc ELSE Append(acc, cur))
    ELSE IF Head(s) \in Whitespace
         THEN SplitFrom(Tail(s), <<>>, IF cur = <<>> THEN acc ELSE Append(acc, cur))
         ELSE SplitFrom(Tail(s), Append(cur, Head(s)), acc)

split(s) == SplitFrom(s, <<>>, <<>>)

\* the fields of s between occurrences of the character sep
RECURSIVE FieldsFrom(_, _, _, _)
FieldsFrom(s, sep, cur, acc) ==
    IF s = <<>> THEN Append(acc, cur)
    ELSE IF Head(s) = sep
         THEN FieldsFrom(Tail(s), sep, <<>>, Append(acc, cur))
         ELSE FieldsFrom(Tail(s), sep, Append(cur, Head(s)), acc)

(***************************************************************************)
(* Calendar dates (datetime.date): [year, month, day]                      *)
(***************************************************************************)
Date(y, m, d) == [year |-> y, month |-> m, day |-> d]

IsLeap(y) == y % 4 = 0 /\ (y % 100 # 0 \/ y % 400 = 0)

DaysInMonth(y, m) ==
    IF m = 2 THEN (IF IsLeap(y) THEN 29 ELSE 28)
    ELSE IF m \in {4, 6, 9, 11} THEN 30 ELSE 31

\* the arguments for which the date constructor does not raise ValueError
ValidDate(y, m, d) ==
    /\ y \in 1..9999
    /\ m \in 1..12
    /\ d >= 1 /\ d <= DaysInMonth(y, m)

RECURSIVE DaysBeforeMonth(_, _)
DaysBeforeMonth(y, m) ==
    IF m = 1 THEN 0 ELSE DaysBeforeMonth(y, m - 1) + DaysInMonth(y, m - 1)

DaysBeforeYear(y) ==
    LET p == y - 1 IN p * 365 + (p \div 4) - (p \div 100) + (p \div 400)

\* date.toordinal(): 0001-01-01 is day 1
toordinal(dt) == DaysBeforeYear(dt.year) + DaysBeforeMonth(dt.year, dt.month) + dt.day

\* date.weekday(): Monday is 0, Saturday 5, Sunday 6
weekday(dt) == (toordinal(dt) + 6) % 7

RECURSIVE MonthOf(_, _, _)
MonthOf(y, m, n) ==
    IF n <= DaysInMonth(y, m) THEN Date(y, m, n)
    ELSE MonthOf(y, m + 1, n - DaysInMonth(y, m))

\* date.fromordinal()
fromordinal(n) ==
    LET n0   == n - 1
        n400 == n0 \div 146097
        r400 == n0 % 146097
        n100 == r400 \div 36524
        r100 == r400 % 36524
        n4   == r100 \div 1461
        r4   == r100 % 1461
        n1   == r4 \div 365
        r1   == r4 % 365
        y    == n400 * 400 + 1 + n100 * 100 + n4 * 4 + n1
    IN  IF n1 = 4 \/ n100 = 4 THEN Date(y - 1, 12, 31)
        ELSE MonthOf(y, 1, r1 + 1)

\* date + timedelta(days=k)
AddDays(dt, k) == fromordinal(toordinal(dt) + k)

\* date.strftime("%d.%m.%Y")
strftime(dt) == Pad2(dt.day) \o <<".">> \o Pad2(dt.month) \o <<".">> \o StrOfNat(dt.year)

\* the text the %d directive of strptime accepts
DayField(t) ==
    \/ Len(t) = 1 /\ t[1] \in AsciiDigits \ {"0"}
    \/ Len(t) = 2 /\ t[1] = " " /\ t[2] \in AsciiDigits \ {"0"}
    \/ Len(t) = 2 /\ IsDecimalDigits(t) /\ IntOf(t) \in 1..31

\* the text the %m directive of strptime accepts
MonthField(t) ==
    \/ Len(t) = 1 /\ t[1] \in AsciiDigits \ {"0"}
    \/ Len(t) = 2 /\ IsDecimalDigits(t) /\ IntOf(t) \in 1..12

\* the text the %Y directive of strptime accepts
YearField(t) == Len(t) = 4 /\ IsDecimalDigits(t)

DayOfField(t) == IF t[1] = " " THEN DigitVal(t[2]) ELSE IntOf(t)

\* datetime.strptime(value, "%d.%m.%Y").date(): <<date>> or <<>> on ValueError
strptime(s) ==
    LET f == FieldsFrom(s, ".", <<>>, <<>>)
    IN  IF /\ Len(f) = 3
           /\ DayField(f[1]) /\ MonthField(f[2]) /\ YearField(f[3])
           /\ ValidDate(IntOf(f[3]), IntOf(f[2]), DayOfField(f[1]))
        THEN <<Date(IntOf(f[3]), IntOf(f[2]), DayOfField(f[1]))>>
        ELSE <<>>

(***************************************************************************)
(* Field validators                                                        *)
(***************************************************************************)
\* Name.__init__ raises ValueError on an empty name
NameRaises(name) == name = <<>>

\* Phone.__init__ raises ValueError unless isdigit() and len 10
PhoneRaises(phone) == ~isdigit(phone) \/ Len(phone) # 10

\* Birthday.__init__ raises ValueError when strptime does
BirthdayRaises(value) == strptime(value) = <<>>

(***************************************************************************)
(* Record: [name, phones, birthday]; an operation yields the exception it  *)
(* raised ("" when it returned) and the record it leaves behind            *)
(***************************************************************************)
Outcome(e, r) == [exc |-> e, rec |-> r]

Record(name) == [name |-> name, phones |-> <<>>, birthday |-> <<>>]

Record_add_birthday(r, birthday) ==
    IF BirthdayRaises(birthday) THEN Outcome("ValueError", r)
    ELSE Outcome("", [r EXCEPT !.birthday = strptime(birthday)])

Record_add_phone(r, phone) ==
    IF PhoneRaises(phone) THEN Outcome("ValueError", r)
    ELSE Outcome("", [r EXCEPT !.phones = Append(@, phone)])

RemoveAt(s, i) == SubSeq(s, 1, i - 1) \o SubSeq(s, i + 1, Len(s))

\* the for loop of remove_phone: the list iterator is at index i of the list
\* that the body mutates; list.remove(ph) compares Phone objects by identity
\* and so deletes the element the iterator is on
RECURSIVE RemoveLoop(_, _, _)
RemoveLoop(phones, i, phone) ==
    IF i > Len(phones) THEN phones
    ELSE IF phones[i] = phone
         THEN RemoveLoop(RemoveAt(phones, i), i + 1, phone)
         ELSE RemoveLoop(phones, i + 1, phone)

Record_remove_phone(r, phone) ==
    Outcome("", [r EXCEPT !.phones = RemoveLoop(@, 1, phone)])

Record_edit_phone(r, old_phone, new_phone) ==
    LET phone_exists == \E i \in 1..Len(r.phones) : r.phones[i] = old_phone
    IN  IF ~phone_exists THEN Outcome("ValueError", r)
        ELSE IF ~isdigit(new_phone) \/ Len(new_phone) # 10
             THEN Outcome("ValueError", r)
             ELSE Outcome("", [r EXCEPT !.phones =
                      [i \in 1..Len(@) |-> IF @[i] = old_phone THEN new_phone ELSE @[i]]])

\* the index of the Phone returned, 0 for None
Record_find_phone(r, phone) ==
    IF \E i \in 1..Len(r.phones) : r.phones[i] = phone
    THEN CHOOSE i \in 1..Len(r.phones) :
             r.phones[i] = phone /\ \A j \in 1..(i - 1) : r.phones[j] # phone
    ELSE 0

(***************************************************************************)
(* AddressBook: the dict as the sequence of its items in iteration order   *)
(***************************************************************************)
Keys(b) == {b[i].key : i \in 1..Len(b)}

IndexOf(b, name) == CHOOSE i \in 1..Len(b) : b[i].key = name

\* a present key keeps its old record (setdefault)
AddressBook_add_record_KeepOld(b, record) ==
    IF record.name \in Keys(b) THEN b
    ELSE Append(b, [key |-> record.name, rec |-> record])

\* self.data[record.name.value] = record: a present key keeps its position
AddressBook_add_record(b, record) ==
    IF record.name \in Keys(b)
    THEN [b EXCEPT ![IndexOf(b, record.name)] = [key |-> record.name, rec |-> record]]
    ELSE Append(b, [key |-> record.name, rec |-> record])

\* self.data.get(name): <<record>> or <<>> for None
AddressBook_find(b, name) ==
    IF name \in Keys(b) THEN <<b[IndexOf(b, name)].rec>> ELSE <<>>

\* an absent name is ignored instead of raising
AddressBook_delete_Quiet(b, name) ==
    IF name \in Keys(b)
    THEN [exc |-> "", book |-> RemoveAt(b, IndexOf(b, name))]
    ELSE [exc |-> "", book |-> b]

AddressBook_delete(b, name) ==
    IF name \in Keys(b)
    THEN [exc |-> "", book |-> RemoveAt(b, IndexOf(b, name))]
    ELSE [exc |-> "ValueError", book |-> b]

\* a Saturday moved one day only
CongratulationDate_SaturdayOneDay(birthday_this_year) ==
    IF weekday(birthday_this_year) \in {5, 6}
    THEN AddDays(birthday_this_year, 1)
    ELSE birthday_this_year

\* the weekend branches of get_upcoming_birthdays
CongratulationDate(birthday_this_year) ==
    IF weekday(birthday_this_year) = 5
    THEN AddDays(birthday_this_year, 2)
    ELSE IF weekday(birthday_this_year) = 6
         THEN AddDays(birthday_this_year, 1)
         ELSE birthday_this_year

\* the loop of get_upcoming_birthdays from item i on, acc the list so far
RECURSIVE UpcomingLoop(_, _, _, _)
UpcomingLoop(b, today, i, acc) ==
    IF i > Len(b) THEN [exc |-> "", list |-> acc]
    ELSE LET user == b[i].rec IN
         IF user.birthday = <<>> THEN UpcomingLoop(b, today, i + 1, acc)
         ELSE LET bd == user.birthday[1] IN
              IF ~ValidDate(today.year, bd.month, bd.day)
              THEN [exc |-> "ValueError", list |-> <<>>]
              ELSE LET birthday_this_year == Date(today.year, bd.month, bd.day)
                       gap == toordinal(birthday_this_year) - toordinal(today)
                       shifted == CongratulationDate(birthday_this_year)
                       user_info == [name |-> user.name,
                                     congratulation_date |-> strftime(shifted)]
                   IN  IF gap < 0 THEN UpcomingLoop(b, today, i + 1, acc)
                       ELSE IF gap < 7
                            THEN UpcomingLoop(b, today, i + 1, Append(acc, user_info))
                            ELSE UpcomingLoop(b, today, i + 1, acc)

AddressBook_get_upcoming_birthdays(b, today) == UpcomingLoop(b, today, 1, <<>>)

(***************************************************************************)
(* Inputs                                                                  *)
(***************************************************************************)
NameA == <<"a">>

NameB == <<"b">>

Names == {NameA, NameB}

\* "1111111111", "2222222222": ten decimal digits
PhoneA == <<"1", "1", "1", "1", "1", "1", "1", "1", "1", "1">>

PhoneB == <<"2", "2", "2", "2", "2", "2", "2", "2", "2", "2">>

\* ten times U+00B2: ten digits for isdigit(), none of them decimal
PhoneSup == <<"sup2", "sup2", "sup2", "sup2", "sup2", "sup2", "sup2", "sup2", "sup2", "sup2">>

\* "12345", "12345abcde", "11111111111": too short, not digits, too long
PhoneShort == <<"1", "2", "3", "4", "5">>

PhoneAlpha == <<"1", "2", "3", "4", "5", "a", "b", "c", "d", "e">>

PhoneLong == <<"1", "1", "1", "1", "1", "1", "1", "1", "1", "1", "1">>

TenDecimalDigits(s) == Len(s) = 10 /\ IsDecimalDigits(s)

PhoneInputs == {PhoneA, PhoneB, PhoneSup, PhoneShort, PhoneAlpha, PhoneLong, <<>>}

\* "15.06.1990", "29.02.2000", "1.1.1999" and the malformed "32.01.2000", "abc"
BdJune15 == <<"1", "5", ".", "0", "6", ".", "1", "9", "9", "0">>

BdFeb29 == <<"2", "9", ".", "0", "2", ".", "2", "0", "0", "0">>

BdJan1 == <<"1", ".", "1", ".", "1", "9", "9", "9">>

BdDay32 == <<"3", "2", ".", "0", "1", ".", "2", "0", "0", "0">>

BdAbc == <<"a", "b", "c">>

BirthdayInputs == {BdJune15, BdFeb29, BdJan1, BdDay32, BdAbc}

NoOp == [op |-> "init"]

(***************************************************************************)
(* SpecRecord: a client calling the methods of one Record                  *)
(***************************************************************************)
InitRecord ==
    /\ rec = Record(NameA)
    /\ book = <<>>
    /\ file = <<>>
    /\ pc = "api"
    /\ out = <<>>
    /\ last = NoOp
    /\ writes = 0

RecordFrame == UNCHANGED <<book, file, pc, out, writes>>

CallAddPhone ==
    \E phone \in PhoneInputs :
        LET o == Record_add_phone(rec, phone) IN
        /\ Len(rec.phones) < MaxPhones
        /\ rec' = o.rec
        /\ last' = [op |-> "add_phone", phone |-> phone, exc |-> o.exc, before |-> rec]
        /\ RecordFrame

CallRemovePhone ==
    \E phone \in PhoneInputs :
        LET o == Record_remove_phone(rec, phone) IN
        /\ rec' = o.rec
        /\ last' = [op |-> "remove_phone", phone |-> phone, exc |-> o.exc, before |-> rec]
        /\ RecordFrame

CallEditPhone ==
    \E old_phone \in PhoneInputs, new_phone \in PhoneInputs :
        LET o == Record_edit_phone(rec, old_phone, new_phone) IN
        /\ rec' = o.rec
        /\ last' = [op |-> "edit_phone", old_phone |-> old_phone,
                    new_phone |-> new_phone, exc |-> o.exc, before |-> rec]
        /\ RecordFrame

CallFindPhone ==
    \E phone \in PhoneInputs :
        /\ rec' = rec
        /\ last' = [op |-> "find_phone", phone |-> phone, exc |-> "",
                    found |-> Record_find_phone(rec, phone), before |-> rec]
        /\ RecordFrame

CallAddBirthday ==
    \E birthday \in BirthdayInputs :
        LET o == Record_add_birthday(rec, birthday) IN
        /\ rec' = o.rec
        /\ last' = [op |-> "add_birthday", birthday |-> birthday, exc |-> o.exc,
                    before |-> rec]
        /\ RecordFrame

NextRecord ==
    \/ CallAddPhone
    \/ CallRemovePhone
    \/ CallEditPhone
    \/ CallFindPhone
    \/ CallAddBirthday

SpecRecord == InitRecord /\ [][NextRecord]_vars

(***************************************************************************)
(* Claims about Record                                                     *)
(***************************************************************************)
Occurs(s, x) == \E i \in 1..Len(s) : s[i] = x

FirstIndex(s, x) == CHOOSE i \in 1..Len(s) : s[i] = x /\ \A j \in 1..(i - 1) : s[j] # x

WithoutFirst(s, x) == IF Occurs(s, x) THEN RemoveAt(s, FirstIndex(s, x)) ELSE s

\* C3: remove_phone(phone) removes exactly the first entry equal to phone and
\* leaves every other entry, later duplicates included, in place and in
\* order; with no matching entry the sequence is unchanged and nothing is
\* raised.
C3_RemovesOnlyFirstMatch ==
    last.op = "remove_phone" =>
        /\ last.exc = ""
        /\ rec.phones = WithoutFirst(last.before.phones, last.phone)

\* what remove_phone does hold for: at most one entry equal to phone
C3_RemovesSingleMatch ==
    (/\ last.op = "remove_phone"
     /\ Cardinality({i \in 1..Len(last.before.phones) :
                        last.before.phones[i] = last.phone}) <= 1) =>
        /\ last.exc = ""
        /\ rec.phones = WithoutFirst(last.before.phones, last.phone)

C3_Reached ==
    /\ last.op = "remove_phone"
    /\ Occurs(last.before.phones, last.phone)
    /\ Len(last.before.phones) >= 2

\* C4: edit_phone(old, new) fails if no phone equals old and fails if new is
\* not exactly 10 decimal digits, leaving the phones unchanged in both cases;
\* otherwise every entry equal to old becomes new and every other entry, the
\* length and the order are unchanged.
C4_EditPhone ==
    last.op = "edit_phone" =>
        IF ~Occurs(last.before.phones, last.old_phone) \/ ~TenDecimalDigits(last.new_phone)
        THEN last.exc # "" /\ rec.phones = last.before.phones
        ELSE /\ last.exc = ""
             /\ Len(rec.phones) = Len(last.before.phones)
             /\ \A i \in 1..Len(rec.phones) :
                    rec.phones[i] = IF last.before.phones[i] = last.old_phone
                                    THEN last.new_phone
                                    ELSE last.before.phones[i]

\* the same with the test the code applies to new: isdigit() and length 10
C4_EditPhoneIsdigit ==
    last.op = "edit_phone" =>
        IF \/ ~Occurs(last.before.phones, last.old_phone)
           \/ ~(Len(last.new_phone) = 10 /\
                \A i \in 1..10 : last.new_phone[i] \in UnicodeDigits)
        THEN last.exc # "" /\ rec.phones = last.before.phones
        ELSE /\ last.exc = ""
             /\ Len(rec.phones) = Len(last.before.phones)
             /\ \A i \in 1..Len(rec.phones) :
                    rec.phones[i] = IF last.before.phones[i] = last.old_phone
                                    THEN last.new_phone
                                    ELSE last.before.phones[i]

C4_Reached ==
    /\ last.op = "edit_phone"
    /\ last.exc = ""
    /\ Cardinality({i \in 1..Len(last.before.phones) :
                       last.before.phones[i] = last.old_phone}) >= 2
    /\ Len(rec.phones) = 3

(***************************************************************************)
(* SpecBook: a client calling the methods of an AddressBook and of the     *)
(* Records it finds in it                                                  *)
(***************************************************************************)
BookPhoneInputs == {PhoneA, PhoneB, PhoneShort}

\* the records a client hands to add_record: a new Record, possibly given
\* a phone and a birthday first
NewRecords(name) ==
    LET r0 == Record(name)
        r1 == Record_add_phone(r0, PhoneA).rec
    IN  {r0, r1, Record_add_birthday(r0, BdJan1).rec, Record_add_birthday(r1, BdJan1).rec}

InitBook ==
    /\ rec = Record(NameA)
    /\ book = <<>>
    /\ file = <<>>
    /\ pc = "api"
    /\ out = <<>>
    /\ last = NoOp
    /\ writes = 0

BookFrame == UNCHANGED <<rec, file, pc, out, writes>>

\* the record stored under name replaced by r (the object found is mutated)
Mutated(b, name, r) == [b EXCEPT ![IndexOf(b, name)].rec = r]

AddRecordOf(filled) ==
    \E name \in Names \cup {<<>>} :
        IF NameRaises(name)
        THEN /\ book' = book
             /\ last' = [op |-> "Record", name |-> name, exc |-> "ValueError", before |-> book]
             /\ BookFrame
        ELSE \E r \in (IF filled THEN NewRecords(name) ELSE {Record(name)}) :
             /\ book' = AddressBook_add_record(book, r)
             /\ last' = [op |-> "add_record", record |-> r, exc |-> "", before |-> book]
             /\ BookFrame

CallAddRecord == AddRecordOf(TRUE)

CallDelete ==
    \E name \in Names :
        LET o == AddressBook_delete(book, name) IN
        /\ book' = o.book
        /\ last' = [op |-> "delete", name |-> name, exc |-> o.exc, before |-> book]
        /\ BookFrame

CallFind ==
    \E name \in Names :
        /\ book' = book
        /\ last' = [op |-> "find", name |-> name, exc |-> "",
                    found |-> AddressBook_find(book, name), before |-> book]
        /\ BookFrame

CallBookAddPhone ==
    \E name \in Keys(book), phone \in BookPhoneInputs :
        LET r == AddressBook_find(book, name)[1]
            o == Record_add_phone(r, phone)
        IN  /\ Len(r.phones) < MaxBookPhones
            /\ book' = Mutated(book, name, o.rec)
            /\ last' = [op |-> "add_phone", name |-> name, exc |-> o.exc]
            /\ BookFrame

CallBookRemovePhone ==
    \E name \in Keys(book), phone \in BookPhoneInputs :
        LET r == AddressBook_find(book, name)[1]
            o == Record_remove_phone(r, phone)
        IN  /\ book' = Mutated(book, name, o.rec)
            /\ last' = [op |-> "remove_phone", name |-> name, exc |-> o.exc]
            /\ BookFrame

CallBookEditPhone ==
    \E name \in Keys(book), old_phone \in BookPhoneInputs, new_phone \in BookPhoneInputs :
        LET r == AddressBook_find(book, name)[1]
            o == Record_edit_phone(r, old_phone, new_phone)
        IN  /\ book' = Mutated(book, name, o.rec)
            /\ last' = [op |-> "edit_phone", name |-> name, exc |-> o.exc]
            /\ BookFrame

CallBookAddBirthday ==
    \E name \in Keys(book), birthday \in {BdJan1, BdDay32} :
        LET r == AddressBook_find(book, name)[1]
            o == Record_add_birthday(r, birthday)
        IN  /\ book' = Mutated(book, name, o.rec)
            /\ last' = [op |-> "add_birthday", name |-> name, exc |-> o.exc]
            /\ BookFrame

NextBook ==
    \/ CallAddRecord
    \/ CallDelete
    \/ CallFind
    \/ CallBookAddPhone
    \/ CallBookRemovePhone
    \/ CallBookEditPhone
    \/ CallBookAddBirthday

SpecBook == InitBook /\ [][NextBook]_vars

(***************************************************************************)
(* Claims about AddressBook                                                *)
(***************************************************************************)
\* the value stored under key name: <<record>>, or <<>> when name is no key
Stored(b, name) ==
    IF \E i \in 1..Len(b) : b[i].key = name
    THEN <<b[CHOOSE i \in 1..Len(b) : b[i].key = name].rec>>
    ELSE <<>>

KeyInvariant(b) == \A i \in 1..Len(b) : b[i].key = b[i].rec.name

\* C5: add_record(r) stores r under the key r.name, replacing a record stored
\* under that name and leaving all other entries unchanged, so that
\* find(r.name) returns r; after any sequence of add_record, delete,
\* phone-edit and add_birthday operations every key equals the name of the
\* record it maps to.
C5_AddRecordKeyInvariant ==
    /\ KeyInvariant(book)
    /\ last.op = "add_record" =>
          /\ AddressBook_find(book, last.record.name) = <<last.record>>
          /\ Cardinality({i \in 1..Len(book) : book[i].key = last.record.name}) = 1
          /\ \A n \in Names \ {last.record.name} : Stored(book, n) = Stored(last.before, n)

C5_Reached ==
    /\ last.op = "add_record"
    /\ last.record.name \in Keys(last.before)
    /\ Stored(last.before, last.record.name) # <<last.record>>
    /\ Len(book) = 2

\* C6: delete(name) of a name that is no key fails and leaves the book
\* unchanged; delete(name) of a key removes exactly that entry, leaves all
\* others unchanged, after which find(name) is absent and a second
\* delete(name) fails.
C6_Delete ==
    last.op = "delete" =>
        IF last.name \notin Keys(last.before)
        THEN last.exc # "" /\ book = last.before
        ELSE /\ last.exc = ""
             /\ Keys(book) = Keys(last.before) \ {last.name}
             /\ Len(book) = Len(last.before) - 1
             /\ \A n \in Names \ {last.name} : Stored(book, n) = Stored(last.before, n)
             /\ AddressBook_find(book, last.name) = <<>>
             /\ AddressBook_delete(book, last.name).exc # ""

C6_Reached ==
    /\ last.op = "delete"
    /\ last.exc = ""
    /\ Len(last.before) = 2

C6_ReachedAbsent ==
    /\ last.op = "delete"
    /\ last.exc # ""
    /\ Len(last.before) = 1

(***************************************************************************)
(* SpecBirthdays: a client filling an AddressBook with birthdays and       *)
(* asking for the upcoming ones on some day                                *)
(***************************************************************************)
\* "31.12.1990"
BdDec31 == <<"3", "1", ".", "1", "2", ".", "1", "9", "9", "0">>

Days(from, to) == {fromordinal(n) : n \in toordinal(from)..toordinal(to)}

\* the values of datetime.today().date() tried: around the turn of the years
\* 2021/22 (1 Jan a Saturday), 2022/23 (1 Jan a Sunday) and 2023/24, the end
\* of February of a common and of a leap year, and mid-June 2024
TodayInputs ==
    Days(Date(2021, 12, 24), Date(2022, 1, 2))
        \cup Days(Date(2022, 12, 24), Date(2023, 1, 2))
        \cup Days(Date(2023, 12, 24), Date(2024, 1, 2))
        \cup Days(Date(2023, 2, 21), Date(2023, 3, 1))
        \cup Days(Date(2024, 2, 21), Date(2024, 3, 1))
        \cup Days(Date(2024, 6, 8), Date(2024, 6, 16))

CallSetBirthday ==
    \E name \in Keys(book), birthday \in BirthdayInputs \cup {BdDec31} :
        LET r == AddressBook_find(book, name)[1]
            o == Record_add_birthday(r, birthday)
        IN  /\ book' = Mutated(book, name, o.rec)
            /\ last' = [op |-> "add_birthday", name |-> name, exc |-> o.exc]
            /\ BookFrame

CallUpcoming ==
    \E today \in TodayInputs :
        LET o == AddressBook_get_upcoming_birthdays(book, today) IN
        /\ book' = book
        /\ last' = [op |-> "get_upcoming_birthdays", today |-> today,
                    exc |-> o.exc, list |-> o.list]
        /\ BookFrame

CallAddEmptyRecord == AddRecordOf(FALSE)

NextBirthdays ==
    \/ CallAddEmptyRecord
    \/ CallDelete
    \/ CallSetBirthday
    \/ CallUpcoming

SpecBirthdays == InitBook /\ [][NextBirthdays]_vars

(***************************************************************************)
(* Claims about get_upcoming_birthdays                                     *)
(***************************************************************************)
\* the birthday's month and day exist in the year of today and that day is
\* one of today .. today + 6
InWindow(bd, today) ==
    /\ ValidDate(today.year, bd.month, bd.day)
    /\ LET p == toordinal(Date(today.year, bd.month, bd.day))
       IN  toordinal(today) <= p /\ p <= toordinal(today) + 6

Qualifies(r, today) == r.birthday # <<>> /\ InWindow(r.birthday[1], today)

RECURSIVE QualifyingNames(_, _)
QualifyingNames(b, today) ==
    IF b = <<>> THEN <<>>
    ELSE (IF Qualifies(Head(b).rec, today) THEN <<Head(b).rec.name>> ELSE <<>>)
             \o QualifyingNames(Tail(b), today)

ReportedNames(list) == [k \in 1..Len(list) |-> list[k].name]

\* C1: get_upcoming_birthdays() includes a record if and only if it has a
\* birthday whose month/day projected onto the current year lies in
\* today .. today + 6 (a projected date before today is excluded, without
\* wraparound into the next year); each included record appears exactly
\* once, in iteration order.
C1_UpcomingWindow ==
    last.op = "get_upcoming_birthdays" =>
        ReportedNames(last.list) = QualifyingNames(book, last.today)

\* the same for the calls that return
C1_UpcomingWindowWhenReturned ==
    (last.op = "get_upcoming_birthdays" /\ last.exc = "") =>
        ReportedNames(last.list) = QualifyingNames(book, last.today)

C1_Reached ==
    /\ last.op = "get_upcoming_birthdays"
    /\ last.exc = ""
    /\ Len(last.list) = 1
    /\ Len(book) = 2
    /\ \A i \in 1..2 : book[i].rec.birthday # <<>>

\* no wraparound: on 29 Dec a birthday of 1 Jan is not reported
C1_NoWraparound ==
    (/\ last.op = "get_upcoming_birthdays"
     /\ last.exc = ""
     /\ last.today.month = 12 /\ last.today.day = 29) =>
        \A k \in 1..Len(last.list) :
            LET bd == Stored(book, last.list[k].name)[1].birthday[1]
            IN  ~(bd.month = 1 /\ bd.day = 1)

\* C2: for every record included, the congratulation date is the projected
\* birthday moved forward 2 days from a Saturday, 1 day from a Sunday and
\* unchanged otherwise; so it is never a Saturday or Sunday and is at most
\* 2 days after the projected birthday.
C2_WeekendRollForward ==
    (last.op = "get_upcoming_birthdays" /\ last.exc = "") =>
        \A k \in 1..Len(last.list) :
            LET bd        == Stored(book, last.list[k].name)[1].birthday[1]
                projected == Date(last.today.year, bd.month, bd.day)
                move      == CASE (toordinal(projected) + 6) % 7 = 5 -> 2
                               [] (toordinal(projected) + 6) % 7 = 6 -> 1
                               [] OTHER -> 0
                text      == last.list[k].congratulation_date
                reported  == strptime(text)
            IN  /\ reported # <<>>
                /\ toordinal(reported[1]) = toordinal(projected) + move
                /\ (toordinal(reported[1]) + 6) % 7 \notin {5, 6}
                /\ toordinal(reported[1]) - toordinal(projected) \in 0..2
                /\ Len(text) = 10 /\ text[3] = "." /\ text[6] = "."

\* a Saturday birthday at the end of December reported in the next year
C2_Reached ==
    /\ last.op = "get_upcoming_birthdays"
    /\ last.exc = ""
    /\ \E k \in 1..Len(last.list) :
           LET bd == Stored(book, last.list[k].name)[1].birthday[1]
           IN  /\ weekday(Date(last.today.year, bd.month, bd.day)) = 5
               /\ strptime(last.list[k].congratulation_date)[1].year = last.today.year + 1

(***************************************************************************)
(* Persistence: pickle.dump / pickle.load of the AddressBook.  The byte    *)
(* stream is a sequence of text tokens: the number of items, then for each *)
(* item its key, the record's name, the number of phones, the phones, and  *)
(* "N" for no birthday or "D" followed by year, month and day.             *)
(***************************************************************************)
DumpBirthday(bd) ==
    IF bd = <<>> THEN <<<<"N">>>>
    ELSE <<<<"D">>, StrOfNat(bd[1].year), StrOfNat(bd[1].month), StrOfNat(bd[1].day)>>

DumpItem(e) ==
    <<e.key, e.rec.name, StrOfNat(Len(e.rec.phones))>> \o e.rec.phones
        \o DumpBirthday(e.rec.birthday)

RECURSIVE DumpItems(_)
DumpItems(b) == IF b = <<>> THEN <<>> ELSE DumpItem(Head(b)) \o DumpItems(Tail(b))

pickle_dump(b) == <<StrOfNat(Len(b))>> \o DumpItems(b)

\* reads n items from position i of the stream
RECURSIVE LoadItems(_, _, _, _)
LoadItems(bytes, i, n, acc) ==
    IF n = 0 THEN acc
    ELSE LET np     == IntOf(bytes[i + 2])
             phones == SubSeq(bytes, i + 3, i + 2 + np)
             j      == i + 3 + np
             hasBd  == bytes[j] = <<"D">>
             bd     == IF hasBd
                       THEN <<Date(IntOf(bytes[j + 1]), IntOf(bytes[j + 2]), IntOf(bytes[j + 3]))>>
                       ELSE <<>>
             item   == [key |-> bytes[i],
                        rec |-> [name |-> bytes[i + 1], phones |-> phones, birthday |-> bd]]
         IN  LoadItems(bytes, IF hasBd THEN j + 4 ELSE j + 1, n - 1, Append(acc, item))

pickle_load(bytes) == LoadItems(bytes, 2, IntOf(bytes[1]), <<>>)

\* file is <<>> while addressbook.pkl does not exist, else <<its content>>
save_data(b) == <<pickle_dump(b)>>

\* every run starts from an empty AddressBook
load_data_AlwaysEmpty(f) == <<>>

\* FileNotFoundError gives an empty AddressBook
load_data(f) == IF f = <<>> THEN <<>> ELSE pickle_load(f[1])

(***************************************************************************)
(* The command loop of main()                                              *)
(***************************************************************************)
W_add == <<"a", "d", "d">>

W_change == <<"c", "h", "a", "n", "g", "e">>

W_phone == <<"p", "h", "o", "n", "e">>

W_all == <<"a", "l", "l">>

W_add_birthday == <<"a", "d", "d", "-", "b", "i", "r", "t", "h", "d", "a", "y">>

W_show_birthday == <<"s", "h", "o", "w", "-", "b", "i", "r", "t", "h", "d", "a", "y">>

W_birthdays == <<"b", "i", "r", "t", "h", "d", "a", "y", "s">>

W_help == <<"h", "e", "l", "p">>

W_hello == <<"h", "e", "l", "l", "o">>

W_close == <<"c", "l", "o", "s", "e">>

W_exit == <<"e", "x", "i", "t">>

W_delete == <<"d", "e", "l", "e", "t", "e">>

Commands == {W_close, W_exit, W_hello, W_add, W_change, W_phone, W_all,
             W_add_birthday, W_show_birthday, W_birthdays, W_help}

RECURSIVE Join(_)
Join(tokens) ==
    IF tokens = <<>> THEN <<>>
    ELSE IF Len(tokens) = 1 THEN tokens[1]
         ELSE tokens[1] \o <<" ">> \o Join(Tail(tokens))

\* the lines typed: every command with right and wrong numbers of arguments,
\* valid and invalid phones and dates, an empty and a blank line, upper case
\* and extra whitespace, and commands that do not exist
Lines ==
    { <<>>, <<" ", "\t">>,
      <<" ", "A", "D", "D", " ", " ", "b", "\t">> \o PhoneA \o <<" ">>,
      <<"E", "X", "I", "T">> }
    \cup { Join(t) : t \in {
      <<W_close>>, <<W_exit>>, <<W_hello>>, <<W_all>>, <<W_help>>, <<W_birthdays>>,
      <<W_add, NameA, PhoneA>>, <<W_add, NameA, PhoneSup>>, <<W_add, NameA, PhoneShort>>,
      <<W_add, NameA>>, <<W_add, NameA, PhoneA, PhoneB>>,
      <<W_change, NameA, PhoneB>>, <<W_change, NameB, PhoneA>>, <<W_change, NameA, PhoneLong>>,
      <<W_change, NameA>>,
      <<W_phone, NameA>>, <<W_phone, NameB>>, <<W_phone>>, <<W_phone, NameA, NameB>>,
      <<W_add_birthday, NameA, BdFeb29>>, <<W_add_birthday, NameA, BdDay32>>,
      <<W_add_birthday, NameB, BdFeb29>>, <<W_add_birthday, NameA>>,
      <<W_add_birthday, NameA, BdFeb29, BdJan1>>,
      <<W_show_birthday, NameA>>, <<W_show_birthday>>, <<W_show_birthday, NameA, NameB>>,
      <<W_delete, NameA>> } }

\* the values of datetime.today().date() tried by the birthdays command: in
\* a common year and three days before 29 Feb of a leap year
CliTodays == {Date(2023, 2, 25), Date(2024, 2, 26)}

parse_input(user_input) ==
    IF strip(user_input) = <<>> THEN [command |-> <<>>, args |-> <<>>]
    ELSE LET t == split(user_input)
         IN  [command |-> LowerStr(strip(t[1])), args |-> Tail(t)]

Msg(text, args) == [text |-> text, args |-> args]

\* the arity test accepting surplus arguments
WrongArity_AtLeast(args, n) == Len(args) < n

\* len(args) != n
WrongArity(args, n) == Len(args) # n

InvalidArgs == Msg("Invalid number of arguments.", <<>>)

\* str(date): ISO format
isoformat(dt) ==
    (IF dt.year < 10 THEN <<"0", "0", "0">>
     ELSE IF dt.year < 100 THEN <<"0", "0">>
     ELSE IF dt.year < 1000 THEN <<"0">> ELSE <<>>)
        \o StrOfNat(dt.year) \o <<"-">> \o Pad2(dt.month) \o <<"-">> \o Pad2(dt.day)

RECURSIVE JoinPhones(_)
JoinPhones(phones) ==
    IF phones = <<>> THEN <<>>
    ELSE IF Len(phones) = 1 THEN phones[1]
         ELSE phones[1] \o <<";", " ">> \o JoinPhones(Tail(phones))

NotSpecified == <<"N", "o", "t", " ", "s", "p", "e", "c", "i", "f", "i", "e", "d">>

\* Record.__str__
Record_str(r) ==
    Msg("Contact name: {}, phones: {}, birthday: {}",
        <<r.name, JoinPhones(r.phones),
          IF r.birthday # <<>> THEN strftime(r.birthday[1]) ELSE NotSpecified>>)

\* input_error: the message inner() returns for the exception func raised
input_error(exc) ==
    CASE exc = "" -> ""
      [] exc = "KeyError" -> "This command cannot be executed."
      [] exc = "ValueError" -> "Give me name and phone please."
      [] exc = "IndexError" -> "There is no such information."
      [] OTHER -> "Error: {}"

\* Init: main() has loaded the book (no file yet) and greeted
Init ==
    /\ rec = Record(NameA)
    /\ file = <<>>
    /\ book = load_data(file)
    /\ pc = "running"
    /\ out = <<Msg("Welcome to the assistant bot!", <<>>)>>
    /\ last = NoOp
    /\ writes = 0

\* one pass of the while loop that neither saves nor ends the process:
\* the book after it, what it showed, the exception raised in the handler
\* and what the wrapper returned to main
Pass(line, p, b, shown, exc, returned) ==
    /\ book' = b
    /\ out' = shown
    /\ last' = [op |-> "command", line |-> line, command |-> p.command, args |-> p.args,
                exc |-> exc, returned |-> returned, before |-> book]
    /\ UNCHANGED <<rec, file, pc, writes>>

\* an exception that reaches main() unhandled ends the process without saving
Crash(line, p, exc) ==
    /\ pc' = "crashed"
    /\ out' = <<>>
    /\ last' = [op |-> "command", line |-> line, command |-> p.command, args |-> p.args,
                exc |-> exc, returned |-> "", before |-> book]
    /\ UNCHANGED <<rec, book, file, writes>>

\* the lines of Lines on which main() takes each branch of its if chain
Reads(command) == {l \in Lines : parse_input(l).command = command}

\* parse_input applied to each of the lines typed
Parsed == [l \in Lines |-> parse_input(l)]

LinesEmpty == Reads(<<>>)

LinesHello == Reads(W_hello)

LinesAdd == Reads(W_add)

LinesChange == Reads(W_change)

LinesPhone == Reads(W_phone)

LinesAll == Reads(W_all)

LinesAddBirthday == Reads(W_add_birthday)

LinesShowBirthday == Reads(W_show_birthday)

LinesBirthdays == Reads(W_birthdays)

LinesHelp == Reads(W_help)

LinesClose == Reads(W_close) \cup Reads(W_exit)

LinesInvalid == {l \in Lines : parse_input(l).command \notin Commands \cup {<<>>}}

CmdEmpty ==
    /\ pc = "running"
    /\ \E line \in LinesEmpty :
           Pass(line, Parsed[line], book, <<>>, "", "")

CmdClose ==
    /\ pc = "running"
    /\ \E line \in LinesClose :
           LET p == Parsed[line] IN
           /\ out' = <<Msg("Good bye!", <<>>)>>
           /\ file' = save_data(book)
           /\ writes' = writes + 1
           /\ pc' = "exited"
           /\ last' = [op |-> "command", line |-> line, command |-> p.command,
                       args |-> p.args, exc |-> "", returned |-> "", before |-> book]
           /\ UNCHANGED <<rec, book>>

CmdHello ==
    /\ pc = "running"
    /\ \E line \in LinesHello :
           Pass(line, Parsed[line], book, <<Msg("How can I help you?", <<>>)>>, "", "")

CmdAdd ==
    /\ pc = "running"
    /\ \E line \in LinesAdd :
           LET p == Parsed[line] IN
           IF WrongArity(p.args, 2) THEN Pass(line, p, book, <<InvalidArgs>>, "", "")
           ELSE LET name  == p.args[1]
                    phone == p.args[2]
                    o     == Record_add_phone(Record(name), phone)
                IN  IF ~isdigit(phone) \/ Len(phone) # 10
                    THEN Pass(line, p, book,
                              <<Msg("Phone number must be a 10-digit number.", <<>>)>>, "", "")
                    ELSE IF NameRaises(name) \/ o.exc # ""
                         THEN Crash(line, p, "ValueError")
                         ELSE Pass(line, p, AddressBook_add_record(book, o.rec),
                                   <<Msg("Added new contact: {} - {}", <<name, phone>>)>>, "", "")

CmdChange ==
    /\ pc = "running"
    /\ \E line \in LinesChange :
           LET p == Parsed[line] IN
           IF WrongArity(p.args, 2) THEN Pass(line, p, book, <<InvalidArgs>>, "", "")
           ELSE LET name      == p.args[1]
                    new_phone == p.args[2]
                    record    == AddressBook_find(book, name)
                IN  IF record = <<>>
                    THEN Pass(line, p, book, <<Msg("Contact {} not found.", <<name>>)>>, "", "")
                    ELSE IF ~isdigit(new_phone) \/ Len(new_phone) # 10
                         THEN Pass(line, p, book,
                                   <<Msg("New phone number must be a 10-digit number.", <<>>)>>,
                                   "", "")
                         ELSE IF record[1].phones = <<>>
                              THEN Crash(line, p, "IndexError")
                              ELSE LET o == Record_edit_phone(record[1], record[1].phones[1],
                                                              new_phone)
                                   IN  IF o.exc # "" THEN Crash(line, p, o.exc)
                                       ELSE Pass(line, p, Mutated(book, name, o.rec),
                                                 <<Msg("Phone number changed for {}.", <<name>>)>>,
                                                 "", "")

CmdPhone ==
    /\ pc = "running"
    /\ \E line \in LinesPhone :
           LET p == Parsed[line] IN
           IF WrongArity(p.args, 1) THEN Pass(line, p, book, <<InvalidArgs>>, "", "")
           ELSE LET name   == p.args[1]
                    record == AddressBook_find(book, name)
                IN  IF record = <<>>
                    THEN Pass(line, p, book, <<Msg("Contact {} not found.", <<name>>)>>, "", "")
                    ELSE IF record[1].phones = <<>>
                         THEN Crash(line, p, "IndexError")
                         ELSE Pass(line, p, book,
                                   <<Msg("Phone number for {}: {}",
                                         <<name, record[1].phones[1]>>)>>, "", "")

CmdAll ==
    /\ pc = "running"
    /\ \E line \in LinesAll :
           Pass(line, Parsed[line], book,
                [i \in 1..Len(book) |-> Record_str(book[i].rec)], "", "")

\* add_birthday(args, book, view) under @input_error
CmdAddBirthday ==
    /\ pc = "running"
    /\ \E line \in LinesAddBirthday :
           LET p == Parsed[line] IN
           IF WrongArity(p.args, 2) THEN Pass(line, p, book, <<InvalidArgs>>, "", "")
           ELSE LET name     == p.args[1]
                    birthday == p.args[2]
                    record   == AddressBook_find(book, name)
                IN  IF record = <<>>
                    THEN Pass(line, p, book, <<Msg("Contact {} not found.", <<name>>)>>, "", "")
                    ELSE LET o == Record_add_birthday(record[1], birthday) IN
                         IF o.exc = "ValueError"
                         THEN \* caught by the handler's own except clause
                              Pass(line, p, book,
                                   <<Msg("Invalid date format. Use DD.MM.YYYY", <<>>)>>,
                                   "ValueError", "")
                         ELSE Pass(line, p, Mutated(book, name, o.rec),
                                   <<Msg("Birthday added for {}.", <<name>>)>>, "", "")

\* show_birthday(args, book, view) under @input_error
CmdShowBirthday ==
    /\ pc = "running"
    /\ \E line \in LinesShowBirthday :
           LET p == Parsed[line] IN
           IF WrongArity(p.args, 1) THEN Pass(line, p, book, <<InvalidArgs>>, "", "")
           ELSE LET name   == p.args[1]
                    record == AddressBook_find(book, name)
                IN  IF record # <<>> /\ record[1].birthday # <<>>
                    THEN Pass(line, p, book,
                              <<Msg("{}'s birthday: {}",
                                    <<name, isoformat(record[1].birthday[1])>>)>>, "", "")
                    ELSE IF record # <<>>
                         THEN Pass(line, p, book,
                                   <<Msg("{} does not have a birthday specified.", <<name>>)>>,
                                   "", "")
                         ELSE Pass(line, p, book,
                                   <<Msg("Contact {} not found.", <<name>>)>>, "", "")

\* birthdays(args, book, view) under @input_error; main() drops what the
\* wrapper returns
CmdBirthdays ==
    /\ pc = "running"
    /\ \E line \in LinesBirthdays, today \in CliTodays :
           LET p == Parsed[line]
               o == AddressBook_get_upcoming_birthdays(book, today)
           IN  IF o.exc # "" THEN Pass(line, p, book, <<>>, o.exc, input_error(o.exc))
               ELSE IF o.list # <<>>
                    THEN Pass(line, p, book,
                              <<Msg("Upcoming birthdays:", <<>>)>> \o
                              [k \in 1..Len(o.list) |->
                                  Msg("The congratulation date for {} is {}",
                                      <<o.list[k].name, o.list[k].congratulation_date>>)],
                              "", "")
                    ELSE Pass(line, p, book, <<Msg("No upcoming birthdays.", <<>>)>>, "", "")

CmdHelp ==
    /\ pc = "running"
    /\ \E line \in LinesHelp :
           Pass(line, Parsed[line], book, <<Msg("Available commands:", <<>>)>>, "", "")

CmdInvalid ==
    /\ pc = "running"
    /\ \E line \in LinesInvalid :
           Pass(line, Parsed[line], book,
                <<Msg("Invalid command. Type 'help' to see available commands.", <<>>)>>,
                "", "")

\* the program is started again: main() loads the file the last run saved
Start ==
    /\ pc = "exited"
    /\ book' = load_data(file)
    /\ out' = <<Msg("Welcome to the assistant bot!", <<>>)>>
    /\ pc' = "running"
    /\ writes' = 0
    /\ last' = [op |-> "start", before |-> book]
    /\ UNCHANGED <<rec, file>>

Next ==
    \/ CmdEmpty
    \/ CmdClose
    \/ CmdHello
    \/ CmdAdd
    \/ CmdChange
    \/ CmdPhone
    \/ CmdAll
    \/ CmdAddBirthday
    \/ CmdShowBirthday
    \/ CmdBirthdays
    \/ CmdHelp
    \/ CmdInvalid
    \/ Start

Spec == Init /\ [][Next]_vars

(***************************************************************************)
(* Claims about the command loop                                           *)
(***************************************************************************)
TwoArgCommands == {W_add, W_change, W_add_birthday}

OneArgCommands == {W_phone, W_show_birthday}

IsWrongArity(l) ==
    \/ l.command \in TwoArgCommands /\ Len(l.args) # 2
    \/ l.command \in OneArgCommands /\ Len(l.args) # 1

IsUnknown(l) == l.command # <<>> /\ l.command \notin Commands

\* C7: every rejected command line (an empty line, an unknown command, and
\* add / change / phone / add-birthday / show-birthday with a wrong number
\* of arguments) leaves the AddressBook unchanged; wrong arity shows
\* "Invalid number of arguments.", an unknown command shows the
\* invalid-command message, and the loop goes on to the next command.
C7_RejectedLeavesBook ==
    (last.op = "command" /\ (last.command = <<>> \/ IsUnknown(last) \/ IsWrongArity(last))) =>
        /\ book = last.before
        /\ pc = "running"
        /\ IsWrongArity(last) => out = <<[text |-> "Invalid number of arguments.", args |-> <<>>]>>
        /\ IsUnknown(last) =>
              out = <<[text |-> "Invalid command. Type 'help' to see available commands.",
                       args |-> <<>>]>>

\* add with three arguments rejected while the book holds records
C7_Reached ==
    /\ last.op = "command"
    /\ last.command = W_add
    /\ Len(last.args) = 3
    /\ Len(book) = 2

\* C8: every data-layer error raised while a command is processed is turned
\* into its fixed message, which is shown, and the loop continues: a
\* validation error shows "Give me name and phone please.", an index out of
\* range shows "There is no such information."; none ends the process.
C8_ErrorsTranslatedAndShown ==
    (last.op = "command" /\ last.exc # "") =>
        /\ pc = "running"
        /\ last.exc = "ValueError" =>
              \E k \in 1..Len(out) : out[k].text = "Give me name and phone please."
        /\ last.exc = "IndexError" =>
              \E k \in 1..Len(out) : out[k].text = "There is no such information."

\* what holds of the errors raised: the loop continues and the book is kept
C8_ErrorsKeepLoopRunning ==
    (last.op = "command" /\ last.exc # "") => (pc = "running" /\ book = last.before)

C8_Reached ==
    /\ last.op = "command"
    /\ last.exc = "ValueError"
    /\ last.command = W_birthdays

\* C9: commands are processed one at a time; the file is written exactly
\* once per run, when the first close or exit is processed, after which no
\* command is processed, and no other command writes it; the snapshot is
\* the book as the commands before close/exit left it, so the next run
\* starts with the same keys, phone lists and birthdays; a run without a
\* file starts from an empty book.
C9_SavedOnceAtExit ==
    /\ pc = "running" => writes = 0
    /\ pc = "exited" =>
          /\ writes = 1
          /\ last.op = "command" /\ last.command \in {W_close, W_exit}
          /\ book = last.before
          /\ file # <<>> /\ pickle_load(file[1]) = book
    /\ last.op = "start" => (pc = "running" /\ book = last.before)
    /\ (last.op = "command" /\ last.command \notin {W_close, W_exit}) => pc # "exited"
    /\ (file = <<>> /\ last.op = "init") => book = <<>>

\* a run that starts from a saved book of two records, one with a birthday
C9_Reached ==
    /\ last.op = "start"
    /\ Len(book) = 2
    /\ \E i \in 1..2 : book[i].rec.birthday # <<>>
    /\ \E i \in 1..2 : book[i].rec.birthday = <<>>

\* C10: from an empty AddressBook, after any sequence of command lines every
\* stored record holds exactly one phone, a string of exactly 10 decimal
\* digits; so phone and change never index past the end of a phone list.
C10_OnePhoneOfTenDecimalDigits ==
    /\ \A i \in 1..Len(book) :
           /\ Len(book[i].rec.phones) = 1
           /\ TenDecimalDigits(book[i].rec.phones[1])
    /\ pc # "crashed"

\* the same with the test the code applies: isdigit() and length 10
C10_OnePhoneOfTenDigits ==
    /\ \A i \in 1..Len(book) :
           /\ Len(book[i].rec.phones) = 1
           /\ ~PhoneRaises(book[i].rec.phones[1])
    /\ pc # "crashed"

C10_Reached ==
    /\ last.op = "command"
    /\ last.command = W_change
    /\ book # last.before
    /\ Len(book) = 2

====
